---- MODULE Spec2Model ----
(***************************************************************************)
(* Model of the page-generation pipeline of valencik.com (gatsby-node.js): *)
(*   - onCreateNode : the slug deriver, run by the framework on each node  *)
(*   - createPages  : the page planner, which queries the content graph    *)
(*                    and issues one createPage command per edge.          *)
(* Array positions are 1-based here: position i of the JavaScript source   *)
(* is index i + 1 of the sequences below.                                  *)
(***************************************************************************)
EXTENDS Integers, Sequences, FiniteSets, TLC

(* ------------------------------ bounds -------------------------------- *)
\* Most edges the query results of the passes carry, taken together.
MaxEdges == 3
\* Number of times createPages is called.
MaxPasses == 2
\* Largest number of nodes the content source creates.
MaxNodes == 3
\* Largest frontmatter date of a markdown node.
MaxDate == 2
\* Largest number of calls of the two handlers a caller makes at will.
MaxInvocations == 3
\* A node-count cap an operator configures, other than the default.
SmallCap == 2

(* --------------------------- JavaScript values ------------------------ *)
\* The JavaScript value undefined, where a string may stand.
Undefined == "<undefined>"

\* An optional object reference: <<>> is undefined, <<x>> is the object x.
None == <<>>
Some(x) == <<x>>

\* path.resolve("./src/templates/blog-post.js")
blogPost == "<cwd>/src/templates/blog-post.js"

\* The limit clause of the query text.
QueryLimit == 1000

\* Slugs a query result may carry.
Slugs == {"/a/", "/b/", "/c/"}

\* The value result.errors takes when the query reports errors.
ErrorValues == {"[GraphQLError]"}

\* The reasons the graphql promise itself may reject with.
RejectReasons == {"graphql rejected"}

\* Nodes as a query result returns them: `ref` is the identity of the object
\* (its position in the returned array), `hasFields` is FALSE when
\* node.fields is null, and `slug` is node.fields.slug (Undefined when the
\* fields mapping has no slug).
ResultNode(ref, hasFields, slug) ==
    [ref |-> ref, hasFields |-> hasFields, slug |-> slug]

NodeShapes ==
    {[hasFields |-> FALSE, slug |-> Undefined]}
        \cup {[hasFields |-> TRUE, slug |-> s] : s \in Slugs \cup {Undefined}}

\* Every edge sequence of length n: edge i is {node: <object i>}.
EdgesOfLen(n) ==
    {[i \in 1..n |-> [node |-> ResultNode(i, f[i].hasFields, f[i].slug)]] :
        f \in [1..n -> NodeShapes]}

\* The results of at most n edges.  A result is data alone or errors, and
\* errors may come with partial data.
QueryResultsWithin(n) ==
    {[errors |-> x, edges |-> e] :
        x \in {Undefined} \cup ErrorValues,
        e \in UNION {EdgesOfLen(k) : k \in 0..n}}

QueryResults == QueryResultsWithin(MaxEdges)

(* ------------------------------- state -------------------------------- *)
VARIABLES
    store,       \* the content source's nodes, in creation order
    pending,     \* ids of nodes whose onCreateNode call is still to run
    invoked,     \* ids on which onCreateNode ran, in call order
    pathCalls,   \* the createFilePath calls and what each returned, in call order
    fieldCalls,  \* the createNodeField calls, in call order
    pc,          \* per pass: "idle", "pending", "resolved", "fulfilled", "rejected"
    result,      \* per pass: None, or Some(r) once its graphql promise resolved with r
    created,     \* per pass: the createPage commands its callback issued, in call order
    rejection,   \* per pass: what the promise createPages returned rejected with
    pass,        \* number of createPages invocations so far
    configured   \* per pass: the node-count cap configured for it (0: none)

\* The createPages invocations, in call order.  Each call has its own
\* promise, result and callback; the calls share no state.
Passes == 1..MaxPasses

deriverVars == <<store, pending, invoked, pathCalls, fieldCalls>>
plannerVars == <<pc, result, created, rejection, pass, configured>>
vars == <<store, pending, invoked, pathCalls, fieldCalls,
          pc, result, created, rejection, pass, configured>>

(* ---------------------------- createPages ----------------------------- *)
\* Variant of HasErrors: tests a property the result never has (result.error).
HasErrorsMisspelled(r) == FALSE

\* if (result.errors): any defined value here is truthy.
HasErrors(r) == r.errors # Undefined

\* Variant of PreviousOf: looks one position earlier instead of later.
PreviousOfEarlier(posts, i) ==
    IF i - 1 \in 1..Len(posts) THEN Some(posts[i - 1].node) ELSE None

\* Variant of PreviousOf: skips a position (i + 2 for i + 1).
PreviousOfSkipping(posts, i) ==
    IF i + 2 \in 1..Len(posts) THEN Some(posts[i + 2].node) ELSE None

\* const { node: previous } = posts[i + 1] || {};
PreviousOf(posts, i) ==
    IF i + 1 \in 1..Len(posts) THEN Some(posts[i + 1].node) ELSE None

\* Variant of NextOf: off by one, reads the entry's own position.
NextOfSelf(posts, i) ==
    IF i \in 1..Len(posts) THEN Some(posts[i].node) ELSE None

\* const { node: next } = posts[i - 1] || {};
NextOf(posts, i) ==
    IF i - 1 \in 1..Len(posts) THEN Some(posts[i - 1].node) ELSE None

\* Variant of PageFor: the route path is read one position too early.
PageForEarlierPath(posts, i) ==
    [path |-> posts[IF i > 1 THEN i - 1 ELSE i].node.slug,
     component |-> blogPost,
     context |-> [slug |-> posts[i].node.slug,
                  previous |-> PreviousOf(posts, i),
                  next |-> NextOf(posts, i)]]

\* Variant of PageFor: the route path is read from the first post.
PageForFirstPath(posts, i) ==
    [path |-> posts[1].node.slug,
     component |-> blogPost,
     context |-> [slug |-> posts[i].node.slug,
                  previous |-> PreviousOf(posts, i),
                  next |-> NextOf(posts, i)]]

\* The argument of createPage for the post at index i.
PageFor(posts, i) ==
    [path |-> posts[i].node.slug,
     component |-> blogPost,
     context |-> [slug |-> posts[i].node.slug,
                  previous |-> PreviousOf(posts, i),
                  next |-> NextOf(posts, i)]]

\* Evaluating post.node.fields.slug throws when fields is null.
Throws(post) == ~post.node.hasFields

\* The index at which edges.forEach(...), started at index i, stops: the
\* first post from i on whose callback throws, or one past the last post.
StopIndex(posts, i) ==
    CHOOSE k \in i..(Len(posts) + 1) :
        /\ k = Len(posts) + 1 \/ Throws(posts[k])
        /\ \A j \in i..(k - 1) : ~Throws(posts[j])

\* edges.forEach(...) from index i on: the commands issued and what was
\* thrown.  A throw ends the loop with the earlier commands already issued.
ForEachPost(posts, i, acc) ==
    IF i > Len(posts) THEN [created |-> acc, thrown |-> Undefined]
    ELSE LET k == StopIndex(posts, i) IN
        [created |-> acc \o [j \in 1..(k - i) |-> PageFor(posts, i + j - 1)],
         thrown |-> IF k > Len(posts) THEN Undefined ELSE "TypeError"]

\* Variant of CreateBlogPosts: the loop starts at the second post.
CreateBlogPostsFromSecond(posts) == ForEachPost(posts, 2, <<>>)

\* Variant of CreateBlogPosts: the first post is read before the length is
\* tested, so an empty sequence throws.
CreateBlogPostsReadFirst(posts) ==
    IF Len(posts) = 0 THEN [created |-> <<>>, thrown |-> "TypeError"]
    ELSE ForEachPost(posts, 1, <<>>)

\* result.data.allMarkdownRemark.edges.forEach(...)
CreateBlogPosts(posts) == ForEachPost(posts, 1, <<>>)

\* Variant of ThenOutcome: the errors are tested after the loop has run.
ThenOutcomeCheckAfter(r) ==
    IF HasErrors(r)
        THEN [created |-> CreateBlogPosts(r.edges).created, thrown |-> r.errors]
        ELSE CreateBlogPosts(r.edges)

\* The callback given to then: what it issues and throws.
ThenOutcome(r) ==
    IF HasErrors(r) THEN [created |-> <<>>, thrown |-> r.errors]
    ELSE CreateBlogPosts(r.edges)

\* The edge sequence of the query result of pass p (empty while it has none).
InputEdges(p) == IF result[p] = None THEN <<>> ELSE result[p][1].edges

\* The number of edges the results of the passes 1..p carry.
RECURSIVE EdgesHeld(_)
EdgesHeld(p) == IF p = 0 THEN 0 ELSE Len(InputEdges(p)) + EdgesHeld(p - 1)

\* exports.createPages is called: the query is sent and a promise returned,
\* whatever the earlier calls have come to.
CreatePagesCall ==
    /\ pass < MaxPasses
    /\ pass' = pass + 1
    /\ pc' = [pc EXCEPT ![pass + 1] = "pending"]
    /\ UNCHANGED <<result, created, rejection>>
    /\ UNCHANGED deriverVars

\* createPages called with nothing configured.
CreatePages ==
    /\ CreatePagesCall
    /\ UNCHANGED configured

\* The graphql promise of a pass resolves with some result.
GraphqlResolve ==
    /\ \E p \in Passes :
        /\ pc[p] = "pending"
        /\ \E r \in QueryResultsWithin(MaxEdges - EdgesHeld(MaxPasses)) :
            result' = [result EXCEPT ![p] = Some(r)]
        /\ pc' = [pc EXCEPT ![p] = "resolved"]
    /\ UNCHANGED <<created, rejection, pass, configured>>
    /\ UNCHANGED deriverVars

\* The graphql promise of a pass rejects: then() passes the rejection on and
\* the callback never runs.
GraphqlReject ==
    /\ \E p \in Passes :
        /\ pc[p] = "pending"
        /\ \E x \in RejectReasons : rejection' = [rejection EXCEPT ![p] = x]
        /\ pc' = [pc EXCEPT ![p] = "rejected"]
    /\ UNCHANGED <<result, created, pass, configured>>
    /\ UNCHANGED deriverVars

\* The then callback of a pass runs on its result.
ThenCallback ==
    /\ \E p \in Passes :
        /\ pc[p] = "resolved"
        /\ LET out == ThenOutcome(result[p][1]) IN
            /\ created' = [created EXCEPT ![p] = out.created]
            /\ rejection' = [rejection EXCEPT ![p] = out.thrown]
            /\ pc' = [pc EXCEPT ![p] =
                        IF out.thrown = Undefined THEN "fulfilled" ELSE "rejected"]
    /\ UNCHANGED <<result, pass, configured>>
    /\ UNCHANGED deriverVars

(* ---------------------------- onCreateNode ---------------------------- *)
\* Source locations under the content root: the directory segments of a
\* document kept as <directory>/index.md.
Locations ==
    {[dir |-> <<"blog", "extending-promise">>, name |-> "index"],
     [dir |-> <<"blog", "my-post">>, name |-> "index"],
     [dir |-> <<"blog", "rust-overflow">>, name |-> "index"]}

\* The order in which the content source walks the documents: by the name
\* of their directory.
Before(l, m) ==
    \/ l.dir[2] = "extending-promise" /\ m.dir[2] # "extending-promise"
    \/ l.dir[2] = "my-post" /\ m.dir[2] = "rust-overflow"

\* The location given to nodes that are not markdown documents.
FileLocation == [dir |-> <<"blog", "rust-overflow">>, name |-> "index"]

\* path.posix.join("/", seg1, ..., segn, "/")
RECURSIVE JoinPath(_)
JoinPath(segs) ==
    IF segs = <<>> THEN "/" ELSE "/" \o Head(segs) \o JoinPath(Tail(segs))

\* createFilePath({ node, getNode }) for a document kept as
\* <directory>/index.md: the directory under the content root, between
\* slashes (blog/my-post/index.md gives /blog/my-post/).
createFilePath(node) == JoinPath(node.location.dir)

\* Variant of RecognizedKind: the guard on the node kind is missing.
RecognizedKindAny(node) == TRUE

\* node.internal.type !== "MarkdownRemark" is false.
RecognizedKind(node) == node.type = "MarkdownRemark"

\* The createFilePath calls one onCreateNode invocation makes on node.
OnCreateNodePathCalls(node) ==
    IF RecognizedKind(node)
        THEN <<[node |-> node.id, returned |-> createFilePath(node)]>>
        ELSE <<>>

\* Variant of OnCreateNodeFieldCalls: the field is written under `path`.
OnCreateNodeFieldCallsAsPath(node) ==
    IF RecognizedKind(node)
        THEN <<[name |-> "path", node |-> node.id, value |-> createFilePath(node)]>>
        ELSE <<>>

\* The createNodeField calls one onCreateNode invocation makes on node.
OnCreateNodeFieldCalls(node) ==
    IF RecognizedKind(node)
        THEN <<[name |-> "slug", node |-> node.id, value |-> createFilePath(node)]>>
        ELSE <<>>

\* createNodeField({ name, node, value }) sets node.fields[name] = value.
RECURSIVE ApplyFieldCalls(_, _)
ApplyFieldCalls(node, calls) ==
    IF calls = <<>> THEN node
    ELSE ApplyFieldCalls(
            [node EXCEPT !.hasFields = TRUE,
                         !.slug = IF Head(calls).name = "slug"
                                     THEN Head(calls).value ELSE @],
            Tail(calls))

\* The content source creates a node and queues its onCreateNode call, while
\* no createPages call is under way.  Distinct markdown documents are
\* distinct files, found in directory order.
CreateNode ==
    /\ \A p \in Passes : pc[p] \in {"idle", "fulfilled", "rejected"}
    /\ Len(store) < MaxNodes
    /\ \E n \in
            {[type |-> "MarkdownRemark", location |-> l, date |-> d] :
                l \in Locations, d \in 1..MaxDate}
            \cup {[type |-> "File", location |-> FileLocation, date |-> 0]} :
        /\ n.type = "MarkdownRemark" =>
            /\ \A k \in 1..Len(store) :
                store[k].type = "MarkdownRemark" => store[k].location # n.location
            /\ \A l \in Locations :
                Before(l, n.location) =>
                    \E k \in 1..Len(store) :
                        store[k].type = "MarkdownRemark" /\ store[k].location = l
        /\ store' = Append(store,
                [id |-> Len(store) + 1, type |-> n.type, location |-> n.location,
                 date |-> n.date, hasFields |-> FALSE, slug |-> Undefined])
    /\ pending' = pending \cup {Len(store) + 1}
    /\ UNCHANGED <<invoked, pathCalls, fieldCalls>>
    /\ UNCHANGED plannerVars

\* exports.onCreateNode runs on node id of the store.
RunOnCreateNode(id) ==
    LET node == store[id]
        calls == OnCreateNodeFieldCalls(node) IN
    /\ invoked' = Append(invoked, id)
    /\ pathCalls' = pathCalls \o OnCreateNodePathCalls(node)
    /\ fieldCalls' = fieldCalls \o calls
    /\ store' = [store EXCEPT ![id] = ApplyFieldCalls(node, calls)]
    /\ UNCHANGED plannerVars

\* The build runs the queued onCreateNode call of a node.
OnCreateNode ==
    \E id \in pending :
        /\ pending' = pending \ {id}
        /\ RunOnCreateNode(id)

\* A caller runs onCreateNode on any node of the store, again or not.
OnCreateNodeAtWill ==
    /\ Len(invoked) + pass < MaxInvocations
    /\ \E id \in 1..Len(store) : RunOnCreateNode(id)
    /\ UNCHANGED pending

(* ------------------------- the build's query -------------------------- *)
\* The ids of the markdown nodes of the store.
MarkdownIds == {k \in 1..Len(store) : store[k].type = "MarkdownRemark"}

Min(a, b) == IF a <= b THEN a ELSE b

\* The latest date of the store (0 when it is empty).
LatestDate ==
    IF store = <<>> THEN 0
    ELSE CHOOSE d \in {store[k].date : k \in 1..Len(store)} :
            \A k \in 1..Len(store) : store[k].date <= d

\* Every arrangement of the ids of S.
RECURSIVE Arrangements(_)
Arrangements(S) ==
    IF S = {} THEN {<<>>}
    ELSE UNION {{<<m>> \o t : t \in Arrangements(S \ {m})} : m \in S}

\* The arrangements of the nodes of S, all dated lo..hi, latest first; nodes
\* of equal date come in any order.
RECURSIVE FromDates(_, _, _)
FromDates(S, lo, hi) ==
    IF S = {} THEN {<<>>}
    ELSE IF lo = hi THEN Arrangements(S)
    ELSE LET mid == (lo + hi) \div 2
             late == {k \in S : store[k].date > mid} IN
        {a \o b : a \in FromDates(late, mid + 1, hi),
                  b \in FromDates(S \ late, lo, mid)}

\* allMarkdownRemark(sort: { fields: [frontmatter___date], order: DESC }):
\* every arrangement of the markdown nodes with dates descending.
SortedByDateDesc == FromDates(MarkdownIds, 0, LatestDate)

\* limit: 1000, and the selection fields { slug } of each node.
StoreResults ==
    {[errors |-> Undefined,
      edges |-> [i \in 1..Min(Len(f), QueryLimit) |->
                    [node |-> ResultNode(f[i], store[f[i]].hasFields,
                                         store[f[i]].slug)]]] :
        f \in SortedByDateDesc}

\* The build starts createPages once every queued onCreateNode call has run,
\* one pass at a time.
CreatePagesAfterSourcing ==
    /\ pending = {}
    /\ \A p \in Passes : pc[p] \in {"idle", "fulfilled", "rejected"}
    /\ CreatePages

\* A caller runs createPages at any time, whatever the earlier calls have
\* come to.
CreatePagesAtWill ==
    /\ Len(invoked) + pass < MaxInvocations
    /\ CreatePages

\* The graphql promise of a pass resolves with the store's answer to the
\* query, or with errors.
GraphqlFromStore ==
    /\ \E p \in Passes :
        /\ pc[p] = "pending"
        /\ \/ \E r \in StoreResults : result' = [result EXCEPT ![p] = Some(r)]
           \/ \E x \in ErrorValues :
                result' = [result EXCEPT
                              ![p] = Some([errors |-> x, edges |-> <<>>])]
        /\ pc' = [pc EXCEPT ![p] = "resolved"]
    /\ UNCHANGED <<created, rejection, pass, configured>>
    /\ UNCHANGED deriverVars

(* ------------------------- a large content set ------------------------ *)
\* How far beyond the query's limit the large content sets go.
MaxExcess == 500

\* The sizes of the content sets the capped build starts from.
CapSizes ==
    (0..MaxNodes) \cup
        {QueryLimit \div 2, QueryLimit - 1, QueryLimit, QueryLimit + 1,
         QueryLimit + MaxExcess}

\* The id-th markdown document of a large content set, as the content source
\* creates it: blog/<id>/index.md, dated in creation order.
BulkNode(id) ==
    [id |-> id, type |-> "MarkdownRemark",
     location |-> [dir |-> <<"blog", ToString(id)>>, name |-> "index"],
     date |-> id, hasFields |-> FALSE, slug |-> Undefined]

\* The state once a content set of n markdown documents has been sourced and
\* onCreateNode has run on each.
InitCap ==
    \E n \in CapSizes :
        /\ store = [id \in 1..n |->
                ApplyFieldCalls(BulkNode(id), OnCreateNodeFieldCalls(BulkNode(id)))]
        /\ pending = {}
        /\ invoked = [id \in 1..n |-> id]
        /\ pathCalls = [id \in 1..n |-> OnCreateNodePathCalls(BulkNode(id))[1]]
        /\ fieldCalls = [id \in 1..n |-> OnCreateNodeFieldCalls(BulkNode(id))[1]]
        /\ pc = [p \in Passes |-> "idle"]
        /\ result = [p \in Passes |-> None]
        /\ created = [p \in Passes |-> <<>>]
        /\ rejection = [p \in Passes |-> Undefined]
        /\ pass = 0
    /\ configured = [p \in Passes |-> 0]

\* The content source creates a node, a markdown document or another file,
\* and queues nothing: the handlers are run by the caller at will.
SourceFile ==
    /\ Len(store) < MaxNodes
    /\ \E n \in {BulkNode(Len(store) + 1),
                 [id |-> Len(store) + 1, type |-> "File",
                  location |-> FileLocation, date |-> 0,
                  hasFields |-> FALSE, slug |-> Undefined]} :
        store' = Append(store, n)
    /\ UNCHANGED <<pending, invoked, pathCalls, fieldCalls>>
    /\ UNCHANGED plannerVars

\* The caps an operator may have configured: none, or a small one.
ConfiguredCaps == {0, SmallCap}

\* createPages called while some cap is configured.  Its only parameter is
\* { graphql, boundActionCreators }: no configuration reaches it.
CreatePagesWithOptions ==
    /\ pending = {}
    /\ CreatePagesCall
    /\ \E c \in ConfiguredCaps :
        configured' = [configured EXCEPT ![pass + 1] = c]

(* --------------------------- specifications --------------------------- *)
Init ==
    /\ store = <<>>
    /\ pending = {}
    /\ invoked = <<>>
    /\ pathCalls = <<>>
    /\ fieldCalls = <<>>
    /\ pc = [p \in Passes |-> "idle"]
    /\ result = [p \in Passes |-> None]
    /\ created = [p \in Passes |-> <<>>]
    /\ rejection = [p \in Passes |-> Undefined]
    /\ pass = 0
    /\ configured = [p \in Passes |-> 0]

\* createPages against any result the graphql argument may produce.
Next ==
    \/ CreatePages
    \/ GraphqlResolve
    \/ GraphqlReject
    \/ ThenCallback

Spec == Init /\ [][Next]_vars

\* The whole build: nodes are sourced and pass through onCreateNode, then
\* createPages runs on what the store answers.
NextBuild ==
    \/ CreateNode
    \/ OnCreateNode
    \/ CreatePagesAfterSourcing
    \/ GraphqlFromStore
    \/ GraphqlReject
    \/ ThenCallback

SpecBuild == Init /\ [][NextBuild]_vars

\* createPages on a content set that is already sourced, small or beyond
\* the query's limit.
NextCap ==
    \/ CreatePagesWithOptions
    \/ GraphqlFromStore
    \/ GraphqlReject
    \/ ThenCallback

SpecCap == InitCap /\ [][NextCap]_vars

\* The two handlers under any caller: onCreateNode on any node, any number
\* of times, and createPages at any time.
NextHandlers ==
    \/ SourceFile
    \/ OnCreateNodeAtWill
    \/ CreatePagesAtWill
    \/ GraphqlFromStore
    \/ GraphqlReject
    \/ ThenCallback

SpecHandlers == Init /\ [][NextHandlers]_vars

(* ------------------------ claims about createPages -------------------- *)
\* The then callback of pass p has run on a query result.
CallbackRan(p) == result[p] # None /\ pc[p] \in {"fulfilled", "rejected"}

\* Every node of the input carries a slug.
SlugAnnotated(p) ==
    \A k \in 1..Len(InputEdges(p)) :
        InputEdges(p)[k].node.hasFields /\ InputEdges(p)[k].node.slug # Undefined

\* The input [C, B, A] with slugs /c/, /b/, /a/.
ExampleCBA(p) ==
    /\ result[p] # None
    /\ result[p][1].errors = Undefined
    /\ Len(InputEdges(p)) = 3
    /\ \A k \in 1..3 : InputEdges(p)[k].node.hasFields
    /\ InputEdges(p)[1].node.slug = "/c/"
    /\ InputEdges(p)[2].node.slug = "/b/"
    /\ InputEdges(p)[3].node.slug = "/a/"

\* C1: the command issued for the edge at index k carries as previous the
\* node at index k + 1 if there is one, else nothing, and as next the node
\* at index k - 1 if there is one, else nothing; for the input [C, B, A]
\* the commands are {/c/, B, absent}, {/b/, A, C}, {/a/, absent, B}.
C1_NeighboursByPosition ==
    \A p \in Passes :
        /\ \A k \in 1..Len(created[p]) :
            /\ created[p][k].context.previous =
                  (IF k + 1 <= Len(InputEdges(p))
                      THEN <<InputEdges(p)[k + 1].node>> ELSE <<>>)
            /\ created[p][k].context.next =
                  (IF k - 1 >= 1 THEN <<InputEdges(p)[k - 1].node>> ELSE <<>>)
        /\ (ExampleCBA(p) /\ CallbackRan(p)) =>
            /\ Len(created[p]) = 3
            /\ created[p][1].path = "/c/"
            /\ created[p][1].context.previous = <<InputEdges(p)[2].node>>
            /\ created[p][1].context.next = <<>>
            /\ created[p][2].path = "/b/"
            /\ created[p][2].context.previous = <<InputEdges(p)[3].node>>
            /\ created[p][2].context.next = <<InputEdges(p)[1].node>>
            /\ created[p][3].path = "/a/"
            /\ created[p][3].context.previous = <<>>
            /\ created[p][3].context.next = <<InputEdges(p)[2].node>>

C1_Witness ==
    \E p \in Passes :
        ExampleCBA(p) /\ pc[p] = "fulfilled" /\ Len(created[p]) = 3

\* C2: after a successful query whose n nodes all carry a slug, exactly n
\* commands have been issued and the k-th command is the one of the k-th
\* node.
C2_OneCommandPerNodeInOrder ==
    \A p \in Passes :
        (CallbackRan(p) /\ result[p][1].errors = Undefined /\ SlugAnnotated(p)) =>
            /\ pc[p] = "fulfilled"
            /\ Len(created[p]) = Len(InputEdges(p))
            /\ \A k \in 1..Len(created[p]) :
                created[p][k].context.slug = InputEdges(p)[k].node.slug

C2_Witness ==
    \E p \in Passes :
        /\ CallbackRan(p) /\ result[p][1].errors = Undefined /\ SlugAnnotated(p)
        /\ Len(created[p]) = 3
        /\ created[p][1].path # created[p][2].path
        /\ created[p][2].path # created[p][3].path

\* C3: when the query result carries errors, the promise rejects with those
\* errors and no command is issued in that pass.
C3_ErrorsPropagate ==
    \A p \in Passes :
        (result[p] # None /\ result[p][1].errors # Undefined) =>
            /\ created[p] = <<>>
            /\ pc[p] \in {"resolved", "rejected"}
            /\ pc[p] = "rejected" => rejection[p] = result[p][1].errors

C3_Witness ==
    \E p \in Passes :
        result[p] # None /\ result[p][1].errors # Undefined /\ pc[p] = "rejected"

\* Some node of the input has a fields mapping without a slug.
SomeNodeLacksSlug(p) ==
    \E k \in 1..Len(InputEdges(p)) :
        InputEdges(p)[k].node.hasFields /\ InputEdges(p)[k].node.slug = Undefined

\* C4: when a node with an empty fields mapping is in the input, the run
\* fails before any command is issued, and no command ever has an absent
\* route path.
C4_MissingSlugFailsFast ==
    \A p \in Passes :
        /\ (CallbackRan(p) /\ result[p][1].errors = Undefined /\ SomeNodeLacksSlug(p)) =>
            (pc[p] = "rejected" /\ created[p] = <<>>)
        /\ \A k \in 1..Len(created[p]) : created[p][k].path # Undefined

\* C5: at the end of a run either a command has been issued for every node
\* of the input, or the run failed and no command was issued.
C5_AllOrNothing ==
    \A p \in Passes :
        pc[p] \in {"fulfilled", "rejected"} =>
            \/ (result[p] # None /\ result[p][1].errors = Undefined
                  /\ Len(created[p]) = Len(InputEdges(p)))
            \/ (pc[p] = "rejected" /\ created[p] = <<>>)

\* C6: the route path of every command equals the slug of the node it was
\* issued for, and so does the slug of its context.
C6_PathIsSlugVerbatim ==
    \A p \in Passes :
        \A k \in 1..Len(created[p]) :
            /\ created[p][k].path = InputEdges(p)[k].node.slug
            /\ created[p][k].context.slug = InputEdges(p)[k].node.slug

C6_Witness ==
    \E p \in Passes :
        /\ pc[p] = "fulfilled"
        /\ Len(created[p]) = 2
        /\ created[p][1].path = "/a/"
        /\ created[p][2].path = "/b/"

\* C7: the first entry has no next, the entry of the last input position has
\* no previous, and every entry strictly between has both.
C7_BoundaryNeighbours ==
    \A p \in Passes :
        \A k \in 1..Len(created[p]) :
            /\ k = 1 => created[p][k].context.next = <<>>
            /\ k = Len(InputEdges(p)) => created[p][k].context.previous = <<>>
            /\ (1 < k /\ k < Len(InputEdges(p))) =>
                /\ created[p][k].context.previous # <<>>
                /\ created[p][k].context.next # <<>>

C7_Witness ==
    \E p \in Passes :
        pc[p] = "fulfilled" /\ Len(created[p]) = 3

\* C8: a successful query with an empty edge sequence ends the run
\* successfully with no command issued.
C8_EmptyInputNoCommands ==
    \A p \in Passes :
        (CallbackRan(p) /\ result[p][1].errors = Undefined /\ InputEdges(p) = <<>>) =>
            (pc[p] = "fulfilled" /\ created[p] = <<>> /\ rejection[p] = Undefined)

C8_Witness ==
    \E p \in Passes :
        /\ CallbackRan(p) /\ result[p][1].errors = Undefined /\ InputEdges(p) = <<>>
        /\ pc[p] = "fulfilled"

(* ------------------------ claims about onCreateNode ------------------- *)
\* The number of times id occurs in the sequence of ids.
Occurrences(ids, id) == Cardinality({k \in 1..Len(ids) : ids[k] = id})

\* The createNodeField calls made on node id, in call order.
FieldCallsOn(id) == SelectSeq(fieldCalls, LAMBDA c : c.node = id)

\* C9: a step in which onCreateNode runs on a node that is not a markdown
\* node changes nothing but the queue of calls to run: no file path is
\* computed, no createNodeField call is made, and the store and the planner
\* are left as they were.
C9_OtherKindsUntouched ==
    [][\A id \in pending :
          (store[id].type # "MarkdownRemark" /\ invoked' = Append(invoked, id)) =>
              /\ pathCalls' = pathCalls
              /\ fieldCalls' = fieldCalls
              /\ store' = store
              /\ UNCHANGED <<pc, result, created, rejection, pass>>]_vars

C9_Witness ==
    \E k \in 1..Len(invoked) : store[invoked[k]].type = "File"

C11_NoPageBeforeQueryCompletes ==
    \A p \in Passes :
        /\ pc[p] \in {"idle", "pending", "resolved"} => created[p] = <<>>
        /\ result[p] = None => created[p] = <<>>
        /\ rejection[p] \in RejectReasons => (result[p] = None /\ created[p] = <<>>)
        /\ (result[p] # None /\ result[p][1].errors # Undefined) => created[p] = <<>>
        /\ created[p] # <<>> =>
            /\ result[p] # None
            /\ result[p][1].errors = Undefined
            /\ pc[p] \in {"fulfilled", "rejected"}

C11_Witness ==
    \E p \in Passes :
        /\ pass = 2
        /\ pc[p] = "rejected"
        /\ result[p] # None /\ result[p][1].errors # Undefined
        /\ Len(InputEdges(p)) = 2
        /\ InputEdges(p)[1].node.hasFields

\* The cap in force: the configured one, or the default 1000.
CapInForce(p) == IF configured[p] = 0 THEN 1000 ELSE configured[p]

\* Pass p is capped by the bound in force: once its callback has run on the
\* store's answer, the run has succeeded, the number of commands is the
\* number of markdown nodes or the cap, whichever is smaller, and the k-th
\* command is the one of the k-th latest node.
CappedPass(p) ==
    (CallbackRan(p) /\ result[p][1].errors = Undefined) =>
        /\ pc[p] = "fulfilled"
        /\ rejection[p] = Undefined
        /\ Len(created[p]) =
              (IF Len(store) <= CapInForce(p) THEN Len(store) ELSE CapInForce(p))
        /\ \A k \in 1..Len(created[p]) :
            created[p][k].path =
                "/blog/" \o ToString(Len(store) + 1 - k) \o "/"

\* C12: the number of nodes planned is capped by the configured bound
\* (default 1000): every pass is capped by the bound in force for it
\* (1500 nodes, cap 1000: commands for the 1000 latest nodes, no error).
C12_CappedByConfiguredBound ==
    \A p \in Passes : CappedPass(p)

\* C12 at the default: every pass with no cap configured is capped at 1000.
C12_DefaultCapScenario ==
    \A p \in Passes : configured[p] = 0 => CappedPass(p)

\* The slugs of the nodes of the input sequence are pairwise distinct.
InputSlugsDistinct(p) ==
    \A i, j \in 1..Len(InputEdges(p)) :
        i # j => InputEdges(p)[i].node.slug # InputEdges(p)[j].node.slug

\* C14: the route paths of the commands issued in one pass are pairwise
\* distinct, given that the nodes of the input carry distinct slugs.
C14_RoutePathsDistinct ==
    \A p \in Passes :
        InputSlugsDistinct(p) =>
            \A i, j \in 1..Len(created[p]) :
                i # j => created[p][i].path # created[p][j].path

C14_Witness ==
    \E p \in Passes :
        /\ pc[p] = "fulfilled"
        /\ InputSlugsDistinct(p)
        /\ Len(created[p]) = 3

\* The nodes of the input sequence, as optional references.
InputNodeRefs(p) == {<<InputEdges(p)[j].node>> : j \in 1..Len(InputEdges(p))}

\* C15: the neighbour links of the commands issued are mutually
\* consistent: the entry at i has the node at j as previous exactly when
\* the entry at j has the node at i as next; no entry links to its own
\* node, and every link is absent or a node of the input sequence.
C15_NeighbourLinksConsistent ==
    \A p \in Passes :
        /\ \A i, j \in 1..Len(created[p]) :
            (created[p][i].context.previous = <<InputEdges(p)[j].node>>)
                <=> (created[p][j].context.next = <<InputEdges(p)[i].node>>)
        /\ \A i \in 1..Len(created[p]) :
            /\ created[p][i].context.previous # <<InputEdges(p)[i].node>>
            /\ created[p][i].context.next # <<InputEdges(p)[i].node>>
            /\ created[p][i].context.previous \in {<<>>} \cup InputNodeRefs(p)
            /\ created[p][i].context.next \in {<<>>} \cup InputNodeRefs(p)

C15_Witness ==
    \E p \in Passes :
        /\ pc[p] = "fulfilled"
        /\ Len(created[p]) = 3
        /\ created[p][1].context.previous = <<InputEdges(p)[2].node>>
        /\ created[p][2].context.next = <<InputEdges(p)[1].node>>
        /\ InputEdges(p)[1].node.slug = InputEdges(p)[2].node.slug

====
